---- MODULE Spec2Model ----
(***************************************************************************)
(* EduAssist python-e2e-tests: the DriverManager session (utils/           *)
(* driver_manager.py) and the BasePage locator and polling helpers         *)
(* (pages/base_page.py).                                                   *)
(*                                                                         *)
(* Time is counted in ticks of half a second: time.sleep(0.5) and one     *)
(* WebDriverWait poll interval are one tick each.  Every call is one       *)
(* action; what the browser answers during the call is drawn with \E.      *)
(***************************************************************************)
EXTENDS Integers, Sequences, FiniteSets, TLC

VARIABLES _driver, _wait, status, conf, page, released, field, last

vars == <<_driver, _wait, status, conf, page, released, field, last>>

----------------------------------------------------------------------------
(* Bounds of the model *)

\* browsers launched in one run of the life cycle
MaxBrowsers == 2
\* length of a selector list
MaxSelectors == 2
\* latest tick at which an element (or a URL, a title) shows up
MaxAppear == 1
\* length of the content of the text input
MaxText == 2

----------------------------------------------------------------------------
(* Program constants *)

\* None, for _driver, _wait and an omitted timeout argument
None == -1
\* ticks per second: time.sleep(0.5) is one tick
TicksPerSecond == 2
\* the sleep between two samples of a polling loop, in ticks
Poll == 1
\* config.IMPLICIT_WAIT, seconds
IMPLICIT_WAIT == 5
\* config.TIMEOUTS['medium'], seconds
TIMEOUT_MEDIUM == 15
\* config.TIMEOUTS['long'], seconds
TIMEOUT_LONG == 30
\* try_multiple_selectors: timeout=2 for each selector
ATTEMPT_TIMEOUT == 2
\* wait_for_any_element: timeout=1 for each selector
ANY_ATTEMPT_TIMEOUT == 1
\* is_element_displayed: timeout=2
DISPLAYED_TIMEOUT == 2
\* the configuration steps of initialize_driver after the launch:
\* implicitly_wait, set_page_load_timeout, set_script_timeout, maximize_window
ConfigSteps == 4

Ticks(seconds) == seconds * TicksPerSecond

Max(a, b) == IF a >= b THEN a ELSE b

\* F applied to the value of x, which is computed once: a result that a
\* caller inspects several times is bound this way
With(x, F(_)) == CHOOSE v \in {F(y) : y \in {x}} : TRUE

----------------------------------------------------------------------------
(* The browser side *)

Browsers == 1..MaxBrowsers

\* the tick of an element that never shows up
Never == None

\* How the element named by one locator behaves during a call: the tick at
\* which it becomes present, and what it is once present.
\*   visible  displayed and enabled, accepts every action
\*   hidden   present, not displayed
\*   stale    present, every later use raises StaleElementReferenceException
\*   blocked  displayed and enabled, the click is rejected
\*   fault    the lookup itself is rejected with a WebDriverException
\*            (a selector the browser cannot parse, as 'h1:contains("..")')
Kinds == {"visible", "hidden", "stale", "blocked"}

Behaviours ==
    {[appear |-> Never, kind |-> "absent"], [appear |-> Never, kind |-> "fault"]}
    \cup [appear : 0..MaxAppear, kind : Kinds]

\* the timeout arguments callers pass, in seconds; None when omitted
Timeouts == {None, 0, 1, 2}

\* the session a handle stands for
Sess(d) ==
    IF d = None THEN "none"
    ELSE IF status[d] = "live" THEN "live" ELSE "dead"

\* The implicit wait of the browser behind d, in ticks: set by the first
\* configuration step of initialize_driver.
Implicit(d) ==
    IF d # None /\ conf[d] >= 1 THEN Ticks(IMPLICIT_WAIT) ELSE 0

\* driver.find_element(*locator) at tick t: the answer and the ticks it took.
\* A lookup through None fails with AttributeError; a released browser
\* rejects it; a live one blocks up to the implicit wait for the element.
find_element(d, b, t) ==
    IF d = None THEN [out |-> "AttributeError", cost |-> 0]
    ELSE IF status[d] # "live" \/ b.kind = "fault"
        THEN [out |-> "WebDriverException", cost |-> 0]
    ELSE IF b.appear # Never /\ b.appear <= t + Implicit(d)
        THEN [out |-> "found", cost |-> Max(0, b.appear - t)]
    ELSE [out |-> "NoSuchElementException", cost |-> Implicit(d)]

\* WebDriverWait(d, timeout).until(EC.presence_of_element_located(locator)):
\* NoSuchElementException is ignored, the loop sleeps one poll interval and
\* gives up with TimeoutException once the clock has passed the end time;
\* every other exception leaves the loop.  A lookup takes some time, however
\* little, so the clock read after the sleep is past the end time as soon as
\* the waits add up to the timeout.
until_presence(d, b, t, end) ==
    LET poll[s \in Nat] ==
            LET r == find_element(d, b, s)
                s2 == s + r.cost + Poll
            IN
            IF r.out = "found" THEN [out |-> "found", t |-> s + r.cost]
            ELSE IF r.out # "NoSuchElementException" THEN [out |-> r.out, t |-> s + r.cost]
            ELSE IF s2 >= end THEN [out |-> "TimeoutException", t |-> s2]
            ELSE poll[s2]
    IN poll[t]

\* `timeout or config.TIMEOUTS[tier]`: None and 0 both select the tier
EffectiveTimeout(timeout, tier) ==
    IF timeout = None \/ timeout = 0 THEN tier ELSE timeout

\* DriverManager.find_element_safe(locator, timeout), entered at tick t:
\* only TimeoutException becomes None.
find_element_safe(d, b, timeout, t) ==
    With(until_presence(d, b, t, t + Ticks(EffectiveTimeout(timeout, TIMEOUT_MEDIUM))),
         LAMBDA r :
    IF r.out = "found" THEN [ret |-> "element", exc |-> "none", t |-> r.t]
    ELSE IF r.out = "TimeoutException" THEN [ret |-> "None", exc |-> "none", t |-> r.t]
    ELSE [ret |-> "None", exc |-> r.out, t |-> r.t])

\* element.is_displayed() on an element found for b
is_displayed(b) ==
    IF b.kind = "stale" THEN "StaleElementReferenceException"
    ELSE IF b.kind \in {"visible", "blocked"} THEN "True" ELSE "False"

\* the texts the tests type: nothing, or one key
Texts == {<<>>, <<"a">>}

\* The text input the page shows (the e-mail field of the login form): its
\* value property, and typed, the text of the last type_text_safe that
\* cleared the input and returned True, while fresh says the value has not
\* been touched since.
EmptyField == [value |-> <<>>, typed |-> <<>>, fresh |-> FALSE]

\* WebElement.text of the input: the rendered text inside the element.  An
\* <input> has no content of its own, what the user typed is its value
\* property, which .text does not read.
element_text(f) == <<>>

----------------------------------------------------------------------------
(* The record of the last call *)

Blank ==
    [op |-> "none", exc |-> "none", ret |-> "None", elem |-> 0,
     elapsed |-> 0, sess |-> "none", quit |-> FALSE, env |-> <<>>, obs |-> <<>>,
     timeout |-> None, sleeps |-> 0, acts |-> <<>>, res |-> "n/a",
     failed |-> "none", arg |-> FALSE,
     pc |-> "done", limit |-> 0, sampled |-> FALSE, slept |-> FALSE,
     text |-> <<>>]

\* no call is under way: the caller has taken the result of the last one
Idle == last.op = "none"

Init ==
    /\ _driver = None
    /\ _wait = None
    /\ status = [b \in Browsers |-> "unborn"]
    /\ conf = [b \in Browsers |-> 0]
    /\ page = [driver |-> None, wait |-> None]
    /\ released = FALSE
    /\ field = EmptyField
    /\ last = Blank

----------------------------------------------------------------------------
(* The session's life cycle *)

Launched == Cardinality({b \in Browsers : status[b] # "unborn"})

\* the configuration calls of initialize_driver, in the order of the code
ConfigCalls ==
    <<"implicitly_wait", "set_page_load_timeout", "set_script_timeout",
      "maximize_window">>

\* The acquisition strategies initialize_driver runs: webdriver.Chrome with
\* the system driver first, the ChromeDriverManager one in the except branch
\* of the first.
strategies_tried_Both(sys) == <<"system", "wdm">>

strategies_tried(sys) == IF sys THEN <<"system">> ELSE <<"system", "wdm">>

\* What becomes of the browser whose driver initialize_driver replaces:
\* nothing quits it, and it goes on running; when no page object holds the
\* driver either, the interpreter may collect the object and with it stop
\* the driver process.
Collectable ==
    IF _driver # None /\ status[_driver] = "live" /\ page.driver # _driver
    THEN BOOLEAN ELSE {FALSE}

\* DriverManager.initialize_driver(): sys and wdm say whether the system
\* Chrome and the WebDriverManager launch succeed, fail names the
\* configuration step that raises (0: none).  The launch assigns _driver
\* before any configuration step runs; _wait is assigned after the last.
\* Fails are the steps the browser may reject, cap the browsers of the run.
initialize(Fails, cap) ==
    \E sys \in BOOLEAN, wdm \in BOOLEAN, fail \in Fails, collected \in Collectable :
        LET new == Launched + 1
            rec == [Blank EXCEPT !.op = "initialize_driver",
                                 !.acts = strategies_tried(sys),
                                 !.obs = <<sys, wdm>>,
                                 !.sess = Sess(_driver), !.quit = released]
        IN
        /\ Idle
        /\ Launched < cap
        /\ IF ~sys /\ ~wdm
           THEN /\ last' = [rec EXCEPT !.exc = "Exception"]
                /\ UNCHANGED <<_driver, _wait, status, conf, released, field>>
           ELSE /\ status' = [b \in Browsers |->
                                IF b = new THEN "live"
                                ELSE IF b = _driver /\ collected THEN "dead"
                                ELSE status[b]]
                /\ _driver' = new
                /\ released' = FALSE
                /\ field' = EmptyField
                /\ IF fail = 0
                   THEN /\ conf' = [conf EXCEPT ![new] = ConfigSteps]
                        /\ _wait' = new
                        /\ last' = [rec EXCEPT !.ret = "driver", !.elem = new]
                   ELSE /\ conf' = [conf EXCEPT ![new] = fail - 1]
                        /\ _wait' = _wait
                        /\ last' = [rec EXCEPT !.exc = "WebDriverException",
                                               !.elem = new,
                                               !.failed = ConfigCalls[fail]]
        /\ UNCHANGED page

\* every configuration step may fail
initialize_driver == initialize(0..ConfigSteps, MaxBrowsers)

\* the start of a test class, which launches one browser: the browser
\* accepts every configuration step, or rejects the first one (no implicit
\* wait is set then)
setup_class == initialize({0, 1}, 1)

\* The exception that leaves quit_driver when quit() ended as out: the try
\* around quit() has `except Exception`, which only prints.
quit_driver_exc_Propagate(out) == IF out = "raised" THEN "WebDriverException" ELSE "none"

quit_driver_exc(out) == "none"

\* DriverManager.quit_driver(): quit() is invoked only on a non-None
\* _driver; the fields are cleared after quit() returned, inside the try,
\* and every exception is swallowed.  A quit() that raised may or may not
\* have ended the browser process.
quit_driver ==
    LET rec == [Blank EXCEPT !.op = "quit_driver", !.sess = Sess(_driver),
                             !.quit = released]
    IN
    /\ Idle
    /\ released' = TRUE
    /\ IF _driver = None
       THEN /\ last' = rec
            /\ UNCHANGED <<_driver, _wait, status>>
       ELSE \E out \in {"ok", "raised"}, gone \in BOOLEAN :
            /\ last' = [rec EXCEPT !.acts = <<"quit">>, !.elem = _driver,
                                   !.res = out, !.exc = quit_driver_exc(out)]
            /\ IF out = "ok"
               THEN /\ status' = [status EXCEPT ![_driver] = "dead"]
                    /\ _driver' = None
                    /\ _wait' = None
               ELSE /\ status' = IF gone THEN [status EXCEPT ![_driver] = "dead"]
                                  ELSE status
                    /\ UNCHANGED <<_driver, _wait>>
    /\ UNCHANGED <<conf, page, field>>

\* DriverManager.get_driver()
get_driver == IF _driver = None THEN "RuntimeError" ELSE "none"

\* DriverManager.get_wait()
get_wait == IF _wait = None THEN "RuntimeError" ELSE "none"

\* BasePage.__init__(): caches the two handles
BasePage ==
    LET exc == IF get_driver # "none" THEN get_driver ELSE get_wait
        rec == [Blank EXCEPT !.op = "BasePage", !.sess = Sess(_driver),
                             !.quit = released, !.exc = exc]
    IN
    /\ Idle
    /\ last' = rec
    /\ page' = IF exc = "none" THEN [driver |-> _driver, wait |-> _wait] ELSE page
    /\ UNCHANGED <<_driver, _wait, status, conf, released, field>>

\* a page object exists
HasPage == page.driver # None

----------------------------------------------------------------------------
(* DriverManager: lookups, waits and interactions *)

\* a call as it starts: the session it finds and whether quit_driver ran
Rec(op) == [Blank EXCEPT !.op = op, !.sess = Sess(_driver), !.quit = released]

\* the call leaves the session as it is and the text input as f
CallOn(rec, f) ==
    /\ Idle
    /\ last' = rec
    /\ field' = f
    /\ UNCHANGED <<_driver, _wait, status, conf, page, released>>

\* the call leaves the session and the page as they are
Call(rec) == CallOn(rec, field)

\* what the browser answers to a command that names no element
Answers == {"ok", "WebDriverException", "TimeoutException"}

\* cls._driver.<command>: through None it is an AttributeError, a released
\* browser rejects it, a live one answers ans
command(d, ans) ==
    IF d = None THEN "AttributeError"
    ELSE IF status[d] # "live" THEN "WebDriverException"
    ELSE ans

\* documents: never ready, ready from a tick on, or the script is rejected
PageLoads == {b \in Behaviours : b.kind \in {"absent", "fault", "visible"}}

\* WebDriverWait(d, timeout).until(lambda: readyState == "complete")
until_ready(d, b, t, end) ==
    LET poll[s \in Nat] ==
            LET c == command(d, IF b.kind = "fault" THEN "WebDriverException" ELSE "ok") IN
            IF c # "ok" THEN [out |-> c, t |-> s]
            ELSE IF b.appear # Never /\ b.appear <= s THEN [out |-> "found", t |-> s]
            ELSE IF s + Poll >= end THEN [out |-> "TimeoutException", t |-> s + Poll]
            ELSE poll[s + Poll]
    IN poll[t]

\* DriverManager.wait_for_page_load(timeout): a timeout is logged only
wait_for_page_load(d, b, timeout, t) ==
    With(until_ready(d, b, t, t + Ticks(EffectiveTimeout(timeout, TIMEOUT_MEDIUM))),
         LAMBDA r :
    IF r.out \in {"found", "TimeoutException"}
    THEN [ret |-> "None", exc |-> "none", t |-> r.t]
    ELSE [ret |-> "None", exc |-> r.out, t |-> r.t])

\* DriverManager.navigate_to(url) and refresh_page(): the command, outside
\* any try, then wait_for_page_load()
navigate(d, ans, b) ==
    LET c == command(d, ans) IN
    IF c # "ok" THEN [ret |-> "None", exc |-> c, t |-> 0]
    ELSE wait_for_page_load(d, b, None, 0)

\* DriverManager.get_current_url() and get_title(): the bare property
get_property(d, ans) ==
    LET c == command(d, ans) IN
    IF c # "ok" THEN [ret |-> "None", exc |-> c] ELSE [ret |-> "str", exc |-> "none"]

\* DriverManager.find_elements_safe(locator): only NoSuchElementException
\* becomes []; find_elements answers an empty list when nothing matches
find_elements_safe(d, b) ==
    LET r == find_element(d, b, 0) IN
    IF r.out = "found" THEN [ret |-> "elements", exc |-> "none", t |-> r.cost]
    ELSE IF r.out = "NoSuchElementException" THEN [ret |-> "[]", exc |-> "none", t |-> r.cost]
    ELSE [ret |-> "[]", exc |-> r.out, t |-> r.cost]

\* WebDriverWait(d, timeout).until(EC.element_to_be_clickable(locator)):
\* the element is looked up, then asked is_displayed() and is_enabled();
\* a stale element raises out of the wait
until_clickable(d, b, t, end) ==
    LET poll[s \in Nat] ==
            LET r == find_element(d, b, s)
                shown == IF r.out = "found" THEN is_displayed(b) ELSE "False"
                s2 == s + r.cost + Poll
            IN
            IF r.out \notin {"found", "NoSuchElementException"}
            THEN [out |-> r.out, t |-> s + r.cost]
            ELSE IF shown = "True" THEN [out |-> "found", t |-> s + r.cost]
            ELSE IF shown # "False" THEN [out |-> shown, t |-> s + r.cost]
            ELSE IF s2 >= end THEN [out |-> "TimeoutException", t |-> s2]
            ELSE poll[s2]
    IN poll[t]

\* DriverManager.wait_for_element_clickable(locator, timeout)
wait_for_element_clickable(d, b, timeout, t) ==
    With(until_clickable(d, b, t, t + Ticks(EffectiveTimeout(timeout, TIMEOUT_MEDIUM))),
         LAMBDA r :
    IF r.out = "found" THEN [ret |-> "element", exc |-> "none", t |-> r.t]
    ELSE IF r.out = "TimeoutException" THEN [ret |-> "None", exc |-> "none", t |-> r.t]
    ELSE [ret |-> "None", exc |-> r.out, t |-> r.t])

\* WebDriverWait(d, timeout).until(EC.text_to_be_present_in_element(..)):
\* the text of a displayed element holds the expected text, a hidden one
\* renders none; a stale element counts as "not yet"
until_text(d, b, t, end) ==
    LET poll[s \in Nat] ==
            LET r == find_element(d, b, s)
                s2 == s + r.cost + Poll
            IN
            IF r.out \notin {"found", "NoSuchElementException"}
            THEN [out |-> r.out, t |-> s + r.cost]
            ELSE IF r.out = "found" /\ b.kind \in {"visible", "blocked"}
                THEN [out |-> "found", t |-> s + r.cost]
            ELSE IF s2 >= end THEN [out |-> "TimeoutException", t |-> s2]
            ELSE poll[s2]
    IN poll[t]

\* DriverManager.wait_for_text_in_element(locator, text, timeout)
wait_for_text_in_element(d, b, timeout, t) ==
    With(until_text(d, b, t, t + Ticks(EffectiveTimeout(timeout, TIMEOUT_LONG))),
         LAMBDA r :
    IF r.out = "found" THEN [ret |-> "True", exc |-> "none", t |-> r.t]
    ELSE IF r.out = "TimeoutException" THEN [ret |-> "False", exc |-> "none", t |-> r.t]
    ELSE [ret |-> "False", exc |-> r.out, t |-> r.t])

\* element.click() on an element found for b
click(b) == IF b.kind = "visible" THEN "ok" ELSE "WebDriverException"

\* DriverManager.click_element_safe(locator, timeout), entered at tick t
click_element_safe(d, b, timeout, t) ==
    With(wait_for_element_clickable(d, b, timeout, t), LAMBDA w :
    LET base == [ret |-> "False", exc |-> "none", res |-> w.ret, acts |-> <<>>,
                 failed |-> "none", t |-> w.t]
    IN
    IF w.exc # "none" THEN [base EXCEPT !.ret = "None", !.exc = w.exc, !.res = "raised"]
    ELSE IF w.ret = "element"
        THEN IF click(b) = "ok"
             THEN [base EXCEPT !.ret = "True", !.acts = <<"click">>]
             ELSE [base EXCEPT !.acts = <<"click">>, !.failed = "click"]
    ELSE base)

\* element.clear() and element.send_keys(text) on an element found for b
element_action(b, ok) == IF b.kind = "stale" \/ ~ok THEN "WebDriverException" ELSE "ok"

\* DriverManager.type_text_safe(locator, text, clear_first)
type_text_safe(d, b, clear_first, clearOk, sendOk) ==
    With(find_element_safe(d, b, None, 0), LAMBDA f :
    LET base == [ret |-> "False", exc |-> "none", res |-> f.ret, acts |-> <<>>,
                 failed |-> "none", t |-> f.t]
    IN
    IF f.exc # "none" THEN [base EXCEPT !.ret = "None", !.exc = f.exc, !.res = "raised"]
    ELSE IF f.ret = "element"
        THEN IF clear_first /\ element_action(b, clearOk) # "ok"
             THEN [base EXCEPT !.acts = <<"clear">>, !.failed = "clear"]
             ELSE LET done == IF clear_first THEN <<"clear">> ELSE <<>> IN
                  IF element_action(b, sendOk) # "ok"
                  THEN [base EXCEPT !.acts = done \o <<"send_keys">>, !.failed = "send_keys"]
                  ELSE [base EXCEPT !.ret = "True", !.acts = done \o <<"send_keys">>]
    ELSE base)

\* the text input after type_text_safe(locator, text, clear_first) ended as
\* r: clear() empties the value, send_keys(text) appends to it
typed_field(f, text, clear_first, r) ==
    LET cleared == IF r.acts # <<>> /\ r.acts[1] = "clear" /\ r.failed # "clear"
                   THEN <<>> ELSE f.value
        sent == r.acts # <<>> /\ r.acts[Len(r.acts)] = "send_keys"
                    /\ r.failed # "send_keys"
        fresh == r.ret = "True" /\ clear_first
    IN [value |-> IF sent THEN cleared \o text ELSE cleared,
        typed |-> IF fresh THEN text ELSE <<>>,
        fresh |-> fresh]

\* DriverManager.get_text_safe(locator): find_element_safe, then
\* element.text under `except Exception`, which returns ""
get_text_safe(d, b, f) ==
    With(find_element_safe(d, b, None, 0), LAMBDA e :
    IF e.exc # "none"
    THEN [ret |-> "None", exc |-> e.exc, res |-> "raised", text |-> <<>>, t |-> e.t]
    ELSE IF e.ret = "element" /\ b.kind # "stale"
    THEN [ret |-> "str", exc |-> "none", res |-> "element", text |-> element_text(f),
          t |-> e.t]
    ELSE [ret |-> "str", exc |-> "none", res |-> e.ret, text |-> <<>>, t |-> e.t])

\* the page after navigate_to or refresh_page ended as r: a page that was
\* loaded anew shows an empty input
loaded_field(d, ans, f) == IF command(d, ans) = "ok" THEN EmptyField ELSE f

\* the result r of a call entered at tick 0, as the record of the call
Result(op, r) ==
    [Rec(op) EXCEPT !.ret = r.ret, !.exc = r.exc, !.elapsed = r.t]

find_element_safe_call ==
    \E b \in Behaviours, timeout \in Timeouts :
        Call([Result("find_element_safe", find_element_safe(_driver, b, timeout, 0))
                EXCEPT !.env = <<b>>, !.timeout = timeout])

find_elements_safe_call ==
    \E b \in Behaviours :
        Call([Result("find_elements_safe", find_elements_safe(_driver, b))
                EXCEPT !.env = <<b>>])

wait_for_element_clickable_call ==
    \E b \in Behaviours, timeout \in Timeouts :
        Call([Result("wait_for_element_clickable",
                     wait_for_element_clickable(_driver, b, timeout, 0))
                EXCEPT !.env = <<b>>, !.timeout = timeout])

wait_for_text_in_element_call ==
    \E b \in Behaviours, timeout \in Timeouts :
        Call([Result("wait_for_text_in_element",
                     wait_for_text_in_element(_driver, b, timeout, 0))
                EXCEPT !.env = <<b>>, !.timeout = timeout])

wait_for_page_load_call ==
    \E b \in PageLoads, timeout \in Timeouts :
        Call([Result("wait_for_page_load", wait_for_page_load(_driver, b, timeout, 0))
                EXCEPT !.env = <<b>>, !.timeout = timeout])

navigate_to_call ==
    \E ans \in Answers, b \in PageLoads :
        CallOn([Result("navigate_to", navigate(_driver, ans, b))
                    EXCEPT !.env = <<b>>, !.res = ans],
               loaded_field(_driver, ans, field))

refresh_page_call ==
    \E ans \in Answers, b \in PageLoads :
        CallOn([Result("refresh_page", navigate(_driver, ans, b))
                    EXCEPT !.env = <<b>>, !.res = ans],
               loaded_field(_driver, ans, field))

get_current_url_call ==
    \E ans \in Answers :
        LET r == get_property(_driver, ans) IN
        Call([Rec("get_current_url") EXCEPT !.ret = r.ret, !.exc = r.exc, !.res = ans])

get_title_call ==
    \E ans \in Answers :
        LET r == get_property(_driver, ans) IN
        Call([Rec("get_title") EXCEPT !.ret = r.ret, !.exc = r.exc, !.res = ans])

click_element_safe_call ==
    \E b \in Behaviours, timeout \in Timeouts :
        LET r == click_element_safe(_driver, b, timeout, 0) IN
        Call([Result("click_element_safe", r)
                EXCEPT !.env = <<b>>, !.timeout = timeout, !.res = r.res,
                       !.acts = r.acts, !.failed = r.failed])

type_text_safe_call ==
    \E b \in Behaviours, clear_first \in BOOLEAN, clearOk \in BOOLEAN, sendOk \in BOOLEAN,
       text \in Texts :
        LET r == type_text_safe(_driver, b, clear_first, clearOk, sendOk)
            f == typed_field(field, text, clear_first, r)
        IN
        /\ Len(f.value) <= MaxText
        /\ CallOn([Result("type_text_safe", r)
                      EXCEPT !.env = <<b>>, !.arg = clear_first, !.res = r.res,
                             !.acts = r.acts, !.failed = r.failed,
                             !.obs = <<clearOk, sendOk>>, !.text = text],
                  f)

get_text_safe_call ==
    \E b \in Behaviours :
        LET r == get_text_safe(_driver, b, field) IN
        Call([Result("get_text_safe", r)
                EXCEPT !.env = <<b>>, !.res = r.res, !.text = r.text])

----------------------------------------------------------------------------
(* BasePage: fallback selectors and polling loops *)

\* One turn of the loop of try_multiple_selectors(selectors, "find") for the
\* selector that behaves as b, entered at tick t: find_element_safe with
\* timeout=2, then is_displayed(); any exception moves on to the next
\* selector.  look is the tick at which the last lookup of the turn was
\* answered.
attempt_find_NoDisplayCheck(d, b, t) ==
    With(find_element_safe(d, b, ATTEMPT_TIMEOUT, t), LAMBDA f :
    [hit |-> f.exc = "none" /\ f.ret = "element",
     from |-> t, look |-> f.t, to |-> f.t])

attempt_find(d, b, t) ==
    With(find_element_safe(d, b, ATTEMPT_TIMEOUT, t), LAMBDA f :
    LET found == f.exc = "none" /\ f.ret = "element"
        timed_out == f.exc = "none" /\ f.ret = "None"
    IN
    [hit |-> found /\ is_displayed(b) = "True",
     from |-> t, look |-> IF timed_out THEN f.t - Poll ELSE f.t, to |-> f.t])

\* the for loop of try_multiple_selectors(selectors, "find")
RECURSIVE try_find(_, _, _, _, _)
try_find(d, bs, i, t, obs) ==
    IF i > Len(bs)
    THEN [ret |-> "None", exc |-> "none", elem |-> 0, t |-> t, obs |-> obs]
    ELSE With(attempt_find(d, bs[i], t), LAMBDA a :
         IF a.hit
         THEN [ret |-> "element", exc |-> "none", elem |-> i, t |-> a.to,
               obs |-> Append(obs, a)]
         ELSE With(Append(obs, a), LAMBDA seen :
                   try_find(d, bs, i + 1, a.to, seen)))

\* BasePage.try_multiple_selectors(selectors, "find")
try_multiple_selectors(d, bs) == try_find(d, bs, 1, 0, <<>>)

\* One turn of the loop of try_multiple_selectors(selectors, "click") for
\* the selector that behaves as b, entered at tick t: click_element with
\* timeout=2; a False and any exception move on to the next selector.
\* clicked says that click() was called on the element, hit that
\* click_element returned True.
attempt_click_AnyClick(d, b, t) ==
    With(click_element_safe(d, b, ATTEMPT_TIMEOUT, t), LAMBDA c :
    [hit |-> c.acts = <<"click">>, clicked |-> c.acts = <<"click">>,
     from |-> t, look |-> c.t, to |-> c.t])

attempt_click(d, b, t) ==
    With(click_element_safe(d, b, ATTEMPT_TIMEOUT, t), LAMBDA c :
    LET timed_out == c.exc = "none" /\ c.res = "None" IN
    [hit |-> c.exc = "none" /\ c.ret = "True", clicked |-> c.acts = <<"click">>,
     from |-> t, look |-> IF timed_out THEN c.t - Poll ELSE c.t, to |-> c.t])

\* the for loop of try_multiple_selectors(selectors, "click")
RECURSIVE try_click(_, _, _, _, _)
try_click(d, bs, i, t, obs) ==
    IF i > Len(bs)
    THEN [ret |-> "None", exc |-> "none", elem |-> 0, t |-> t, obs |-> obs]
    ELSE With(attempt_click(d, bs[i], t), LAMBDA a :
         IF a.hit
         THEN [ret |-> "True", exc |-> "none", elem |-> i, t |-> a.to,
               obs |-> Append(obs, a)]
         ELSE With(Append(obs, a), LAMBDA seen :
                   try_click(d, bs, i + 1, a.to, seen)))

\* BasePage.try_multiple_selectors(selectors, "click")
try_multiple_selectors_click(d, bs) == try_click(d, bs, 1, 0, <<>>)

\* the for loop of wait_for_any_element over the selectors, entered at tick
\* t: find_element_safe with timeout=1 and is_displayed(), outside any try
RECURSIVE any_selector(_, _, _, _)
any_selector(d, bs, i, t) ==
    IF i > Len(bs) THEN [elem |-> 0, exc |-> "none", t |-> t]
    ELSE With(find_element_safe(d, bs[i], ANY_ATTEMPT_TIMEOUT, t), LAMBDA f :
         LET shown == IF f.ret = "element" THEN is_displayed(bs[i]) ELSE "False" IN
         IF f.exc # "none" THEN [elem |-> 0, exc |-> f.exc, t |-> f.t]
         ELSE IF shown = "True" THEN [elem |-> i, exc |-> "none", t |-> f.t]
         ELSE IF shown # "False" THEN [elem |-> 0, exc |-> shown, t |-> f.t]
         ELSE any_selector(d, bs, i + 1, f.t))

\* the while loop of wait_for_any_element: it runs while less than limit
\* ticks have passed since tick 0, and sleeps after every fruitless round
any_loop(d, bs, t, limit, sleeps) ==
    LET round[s \in Nat, n \in Nat] ==
            IF ~(s < limit)
            THEN [ret |-> "None", exc |-> "none", elem |-> 0, t |-> s, sleeps |-> n]
            ELSE LET c == any_selector(d, bs, 1, s) IN
                 IF c.exc # "none"
                 THEN [ret |-> "None", exc |-> c.exc, elem |-> 0, t |-> c.t, sleeps |-> n]
                 ELSE IF c.elem # 0
                 THEN [ret |-> "element", exc |-> "none", elem |-> c.elem, t |-> c.t,
                       sleeps |-> n]
                 ELSE round[c.t + Poll, n + 1]
    IN round[t, sleeps]

\* BasePage.wait_for_any_element(selectors, timeout)
wait_for_any_element(d, bs, timeout) ==
    any_loop(d, bs, 0, Ticks(EffectiveTimeout(timeout, TIMEOUT_MEDIUM)), 0)

\* A navigation in flight when a loop is entered: it never completes, the
\* URL cannot be read, it completes at tick appear ("visible"), or between
\* tick appear and the next ("midway").
Navigations ==
    PageLoads \cup {[appear |-> a, kind |-> "midway"] : a \in 0..MaxAppear}

\* the navigation u has completed by tick t: the URL holds the text
completed(u, t) ==
    /\ u.appear # Never
    /\ IF u.kind = "midway" THEN u.appear < t ELSE u.appear <= t

\* the while loop of wait_for_url_contains: the URL is read through
\* DriverManager.get_current_url(), outside any try; it holds the text once
\* the navigation u has completed.  obs lists the samples: the tick and what
\* was read.
url_loop(d, u, t, limit, obs) ==
    LET round[s \in Nat, seen \in Seq([at : Nat, read : STRING])] ==
            IF ~(s < limit)
            THEN [ret |-> "False", exc |-> "none", t |-> s, obs |-> seen]
            ELSE LET c == get_property(d, IF u.kind = "fault"
                                          THEN "WebDriverException" ELSE "ok")
                     holds == completed(u, s)
                 IN
                 IF c.exc # "none"
                 THEN [ret |-> "None", exc |-> c.exc, t |-> s,
                       obs |-> Append(seen, [at |-> s, read |-> c.exc])]
                 ELSE IF holds
                 THEN [ret |-> "True", exc |-> "none", t |-> s,
                       obs |-> Append(seen, [at |-> s, read |-> "match"])]
                 ELSE round[s + Poll, Append(seen, [at |-> s, read |-> "other"])]
    IN round[t, obs]

\* BasePage.wait_for_url_contains(text, timeout)
wait_for_url_contains_SleepFirst(d, u, timeout) ==
    url_loop(d, u, Poll, Ticks(EffectiveTimeout(timeout, TIMEOUT_MEDIUM)), <<>>)

wait_for_url_contains(d, u, timeout) ==
    url_loop(d, u, 0, Ticks(EffectiveTimeout(timeout, TIMEOUT_MEDIUM)), <<>>)

\* BasePage.wait_for_title_contains(text, timeout): the loop of
\* wait_for_url_contains over DriverManager.get_title(), compared in lower
\* case; the title holds the text from tick u.appear on
wait_for_title_contains(d, u, timeout) ==
    url_loop(d, u, 0, Ticks(EffectiveTimeout(timeout, TIMEOUT_MEDIUM)), <<>>)

\* the letters of a URL, a title and the text looked for: one letter in
\* its two cases
Letters == {"a", "A"}

\* the strings of up to MaxText letters
Strings == UNION {[1..n -> Letters] : n \in 0..MaxText}

\* str.lower()
lower(str) == [i \in 1..Len(str) |-> IF str[i] = "A" THEN "a" ELSE str[i]]

\* `text in str`: text is a substring of str
contains(text, str) ==
    \E k \in 0..(Len(str) - Len(text)) : SubSeq(str, k + 1, k + Len(text)) = text

\* What the URL and the title read, sample by sample: the empty string
\* until tick appear, the string shown from then on.
Samples == [appear : {Never} \cup 0..MaxAppear, shown : Strings]

sampled_string(n, t) ==
    IF n.appear # Never /\ n.appear <= t THEN n.shown ELSE <<>>

\* the test of wait_for_url_contains: `text in self.get_current_url()`
url_holds(text, str) == contains(text, str)

\* the test of wait_for_title_contains:
\* `text.lower() in self.get_page_title().lower()`
title_holds_Equal(text, str) == lower(text) = lower(str)

title_holds(text, str) == contains(lower(text), lower(str))

\* The while loop of wait_for_url_contains and of wait_for_title_contains
\* over the samples n, entered at tick 0: title says which of the two tests
\* the loop makes.
contains_loop(d, n, text, title, limit) ==
    LET round[s \in Nat] ==
            IF ~(s < limit) THEN [ret |-> "False", exc |-> "none", t |-> s]
            ELSE LET c == get_property(d, "ok") IN
                 IF c.exc # "none" THEN [ret |-> "None", exc |-> c.exc, t |-> s]
                 ELSE IF (IF title THEN title_holds(text, sampled_string(n, s))
                          ELSE url_holds(text, sampled_string(n, s)))
                 THEN [ret |-> "True", exc |-> "none", t |-> s]
                 ELSE round[s + Poll]
    IN round[0]

\* BasePage.wait_for_url_contains(text, timeout) over the samples n
wait_for_url_contains_in(d, n, text, timeout) ==
    contains_loop(d, n, text, FALSE,
                  Ticks(EffectiveTimeout(timeout, TIMEOUT_MEDIUM)))

\* BasePage.wait_for_title_contains(text, timeout) over the samples n
wait_for_title_contains_in(d, n, text, timeout) ==
    contains_loop(d, n, text, TRUE,
                  Ticks(EffectiveTimeout(timeout, TIMEOUT_MEDIUM)))

\* The shape shared by hover_over_element, send_keys_to_element and
\* scroll_to_element: find_element_safe(locator) outside the try, then, on
\* an element, the action act under `except Exception`, which returns
\* False; pause is the time.sleep(0.5) that follows a hover and a scroll.
\* accepted says whether the browser carries the action out.
resolve_then_act(d, b, act, accepted, pause) ==
    With(find_element_safe(d, b, None, 0), LAMBDA f :
    LET base == [ret |-> "False", exc |-> "none", res |-> f.ret, acts |-> <<>>,
                 failed |-> "none", t |-> f.t]
    IN
    IF f.exc # "none" THEN [base EXCEPT !.ret = "None", !.exc = f.exc, !.res = "raised"]
    ELSE IF f.ret = "element"
        THEN IF accepted /\ element_action(b, TRUE) = "ok"
             THEN [base EXCEPT !.ret = "True", !.acts = <<act>>, !.t = f.t + pause]
             ELSE [base EXCEPT !.acts = <<act>>, !.failed = act]
    ELSE base)

\* BasePage.hover_over_element(locator): ActionChains(self.driver) moves to
\* the element that DriverManager found; a driver other than the one the
\* element belongs to cannot carry the move out
hover_over_element(d, pd, b, ok) ==
    resolve_then_act(d, b, "move_to_element", ok /\ pd = d, Poll)

\* BasePage.send_keys_to_element(locator, keys)
send_keys_to_element(d, b, ok) == resolve_then_act(d, b, "send_keys", ok, 0)

\* DriverManager.scroll_to_element(locator): scrollIntoView by
\* cls._driver.execute_script
scroll_to_element(d, b, ok) == resolve_then_act(d, b, "execute_script", ok, Poll)

\* DriverManager.is_element_displayed(locator), entered at tick t:
\* find_element_safe with timeout=2 outside the try, is_displayed() under a
\* bare except
is_element_displayed(d, b, t) ==
    With(find_element_safe(d, b, DISPLAYED_TIMEOUT, t), LAMBDA f :
    IF f.exc # "none" THEN [ret |-> "None", exc |-> f.exc, t |-> f.t]
    ELSE IF f.ret = "element" /\ is_displayed(b) = "True"
        THEN [ret |-> "True", exc |-> "none", t |-> f.t]
    ELSE [ret |-> "False", exc |-> "none", t |-> f.t])

\* any(self.is_element_displayed(by_css(s)) for s in selectors), from
\* position i on and entered at tick t: the generator stops at the first
\* True; tried counts the selectors it looked up
RECURSIVE any_displayed(_, _, _, _)
any_displayed(d, bs, i, t) ==
    IF i > Len(bs) THEN [ret |-> "False", exc |-> "none", t |-> t, tried |-> i - 1]
    ELSE With(is_element_displayed(d, bs[i], t), LAMBDA r :
         IF r.exc # "none" THEN [ret |-> "None", exc |-> r.exc, t |-> r.t, tried |-> i]
         ELSE IF r.ret = "True" THEN [ret |-> "True", exc |-> "none", t |-> r.t, tried |-> i]
         ELSE any_displayed(d, bs, i + 1, r.t))

\* the selector lists of the page objects as the browser sees them: one
\* behaviour per position
FindLists == UNION {[1..n -> Behaviours \ {[appear |-> a, kind |-> "blocked"] : a \in 0..MaxAppear}]
                    : n \in 1..MaxSelectors}

\* the selector lists of buttons and links: a click may be rejected
ClickLists == UNION {[1..n -> Behaviours] : n \in 1..MaxSelectors}

try_multiple_selectors_click_call ==
    \E bs \in ClickLists :
        LET r == try_multiple_selectors_click(_driver, bs) IN
        /\ HasPage
        /\ Call([Result("try_multiple_selectors_click", r)
                    EXCEPT !.env = bs, !.elem = r.elem, !.obs = r.obs])

any_displayed_call ==
    \E bs \in FindLists :
        LET r == any_displayed(_driver, bs, 1, 0) IN
        /\ HasPage
        /\ Call([Result("any_displayed", r) EXCEPT !.env = bs, !.elem = r.tried])

\* One input step of LoginPage.login over the selector list bs:
\* try_multiple_selectors(selectors, "find"), then, when it returned an
\* element, type_text(by_css(selectors[0]), text).  located is the position
\* of the selector whose element the search returned, typed the position of
\* the selector whose element received the text (0: none).
input_step(d, bs) ==
    With(try_multiple_selectors(d, bs), LAMBDA r :
    IF r.ret # "element"
    THEN [ok |-> FALSE, exc |-> "none", located |-> 0, typed |-> 0, t |-> r.t]
    ELSE With(type_text_safe(d, bs[1], TRUE, TRUE, TRUE), LAMBDA w :
              [ok |-> w.ret = "True", exc |-> w.exc, located |-> r.elem,
               typed |-> IF w.ret = "True" THEN 1 ELSE 0, t |-> r.t + w.t]))

\* the for loop of login over login_button_selectors, from position i on and
\* entered at tick t: click_element(by_css(selector)) with the default
\* timeout, outside any try
RECURSIVE click_buttons(_, _, _, _)
click_buttons(d, bs, i, t) ==
    IF i > Len(bs) THEN [ret |-> "False", exc |-> "none", t |-> t]
    ELSE With(click_element_safe(d, bs[i], None, t), LAMBDA c :
         IF c.exc # "none" \/ c.ret = "True" THEN [ret |-> c.ret, exc |-> c.exc, t |-> c.t]
         ELSE click_buttons(d, bs, i + 1, c.t))

\* the seconds login sleeps after the click
LOGIN_PAUSE == 2

\* LoginPage.login(email, password): the e-mail step, the password step,
\* the click on the first button that accepts it (the CSS selectors, then
\* the XPath one, which behaves as x), time.sleep(2).  failed names the
\* step at which login returned False or raised.
login(d, es, ps, buttons, x) ==
    With(input_step(d, es), LAMBDA e :
    IF ~e.ok
    THEN [ret |-> IF e.exc = "none" THEN "False" ELSE "None", exc |-> e.exc,
          t |-> e.t, obs |-> <<e>>, failed |-> "email"]
    ELSE With(input_step(d, ps), LAMBDA q :
    IF ~q.ok
    THEN [ret |-> IF q.exc = "none" THEN "False" ELSE "None", exc |-> q.exc,
          t |-> e.t + q.t, obs |-> <<e, q>>, failed |-> "password"]
    ELSE With(click_buttons(d, buttons \o <<x>>, 1, e.t + q.t), LAMBDA c :
    IF c.exc # "none"
    THEN [ret |-> "None", exc |-> c.exc, t |-> c.t, obs |-> <<e, q>>, failed |-> "button"]
    ELSE IF c.ret # "True"
    THEN [ret |-> "False", exc |-> "none", t |-> c.t, obs |-> <<e, q>>, failed |-> "button"]
    ELSE [ret |-> "True", exc |-> "none", t |-> c.t + Ticks(LOGIN_PAUSE),
          obs |-> <<e, q>>, failed |-> "none"])))

\* the inputs of the login form as its selectors see them: a selector
\* matches a displayed input of the page, or nothing
InputLists ==
    UNION {[1..n -> {[appear |-> Never, kind |-> "absent"],
                     [appear |-> 0, kind |-> "visible"]}] : n \in 1..MaxSelectors}

\* the login button: it takes the click, rejects it, or is not there
Buttons ==
    {[appear |-> Never, kind |-> "absent"], [appear |-> 0, kind |-> "visible"],
     [appear |-> 0, kind |-> "blocked"]}

\* the text input after login: the e-mail typed into it, when it was
LoginText == <<"a">>

login_call ==
    \E es \in InputLists, ps \in InputLists, b \in Buttons, x \in Buttons :
        LET r == login(_driver, es, ps, <<b>>, x) IN
        /\ HasPage
        /\ CallOn([Result("login", r)
                      EXCEPT !.env = <<es, ps>>, !.obs = r.obs, !.failed = r.failed,
                             !.text = LoginText],
                  IF r.obs[1].typed # 0
                  THEN [value |-> LoginText, typed |-> LoginText, fresh |-> TRUE]
                  ELSE field)

\* the three soft interactions of a page object
SoftActions == {"hover_over_element", "send_keys_to_element", "scroll_to_element"}

soft_action_call ==
    \E op \in SoftActions, b \in Behaviours, ok \in BOOLEAN :
        LET r == IF op = "hover_over_element"
                 THEN hover_over_element(_driver, page.driver, b, ok)
                 ELSE IF op = "send_keys_to_element"
                 THEN send_keys_to_element(_driver, b, ok)
                 ELSE scroll_to_element(_driver, b, ok)
        IN
        /\ HasPage
        /\ Call([Result(op, r)
                    EXCEPT !.env = <<b>>, !.res = r.res, !.acts = r.acts,
                           !.failed = r.failed, !.arg = ok])

\* wait_for_url_contains and wait_for_title_contains side by side: the
\* same samples, text and timeout; obs holds what the two returned and the
\* exceptions that left them, the URL loop first
side_by_side_call ==
    \E n \in Samples, text \in Strings, timeout \in Timeouts :
        LET u == wait_for_url_contains_in(_driver, n, text, timeout)
            w == wait_for_title_contains_in(_driver, n, text, timeout)
        IN
        /\ HasPage
        /\ Call([Result("side_by_side", u)
                    EXCEPT !.env = <<n>>, !.text = text, !.timeout = timeout,
                           !.obs = <<[ret |-> u.ret, exc |-> u.exc, t |-> u.t],
                                     [ret |-> w.ret, exc |-> w.exc, t |-> w.t]>>])

try_multiple_selectors_call ==
    \E bs \in FindLists :
        LET r == try_multiple_selectors(_driver, bs) IN
        /\ HasPage
        /\ Call([Result("try_multiple_selectors", r)
                    EXCEPT !.env = bs, !.elem = r.elem, !.obs = r.obs])

wait_for_any_element_call ==
    \E bs \in FindLists, timeout \in Timeouts :
        LET r == wait_for_any_element(_driver, bs, timeout) IN
        /\ HasPage
        /\ Call([Result("wait_for_any_element", r)
                    EXCEPT !.env = bs, !.elem = r.elem, !.sleeps = r.sleeps,
                           !.timeout = timeout])

wait_for_url_contains_call ==
    \E u \in Navigations, timeout \in Timeouts :
        LET r == wait_for_url_contains(_driver, u, timeout) IN
        /\ HasPage
        /\ Call([Result("wait_for_url_contains", r)
                    EXCEPT !.env = <<u>>, !.obs = r.obs, !.timeout = timeout])

wait_for_title_contains_call ==
    \E u \in PageLoads, timeout \in Timeouts :
        LET r == wait_for_title_contains(_driver, u, timeout) IN
        /\ HasPage
        /\ Call([Result("wait_for_title_contains", r)
                    EXCEPT !.env = <<u>>, !.obs = r.obs, !.timeout = timeout])

----------------------------------------------------------------------------
(* The polling loops, one step at a time *)

\* the loops that read the URL or the title until it shows what is awaited
PropertyLoops ==
    {"wait_for_url_contains", "wait_for_title_contains", "wait_for_login_success"}

\* the loops over two selector lists, each of which must show an element
PairLoops == {"wait_for_dashboard_load", "wait_for_chat_interface_load"}

\* the loops `while time.time() - start_time < timeout`
WhileLoops == PropertyLoops \cup PairLoops \cup {"wait_for_any_element"}

\* the loops of WebDriverWait.until: sample, sleep, then the deadline
UntilLoops == {"find_element_safe", "wait_for_element_clickable"}

Loops == WhileLoops \cup UntilLoops

\* `timeout or config.TIMEOUTS[..]` of each loop, in seconds
LoopTier(op) ==
    IF op = "wait_for_dashboard_load" THEN TIMEOUT_LONG ELSE TIMEOUT_MEDIUM

\* what each loop returns when the deadline has passed, and on success
FailureValue(op) ==
    IF op \in UntilLoops \cup {"wait_for_any_element"} THEN "None" ELSE "False"

SuccessValue(op) ==
    IF op \in UntilLoops \cup {"wait_for_any_element"} THEN "element" ELSE "True"

\* a selector list of which the browser is asked one selector
OneSelector == {<<b>> : b \in {x \in Behaviours : x.kind # "blocked"}}

\* what a loop meets: the URL or title, the list(s) of selectors, the element
LoopEnvs(op) ==
    IF op \in PropertyLoops THEN {<<u>> : u \in PageLoads}
    ELSE IF op \in PairLoops
        THEN {<<x[1], <<x[2]>>>> : x \in OneSelector \X PageLoads}
    ELSE IF op = "wait_for_any_element" THEN OneSelector
    ELSE {<<b>> : b \in Behaviours}

\* One sample of the condition of loop op at tick t: whether the condition
\* was seen, the exception that left the sample, the tick it ended at.
sample(op, d, env, t) ==
    IF op \in PropertyLoops
    THEN LET c == get_property(d, IF env[1].kind = "fault" THEN "WebDriverException"
                                  ELSE "ok")
         IN [seen |-> c.exc = "none" /\ env[1].appear # Never /\ env[1].appear <= t,
             exc |-> c.exc, t |-> t]
    ELSE IF op \in PairLoops
    THEN With(any_displayed(d, env[1], 1, t), LAMBDA first :
         With(any_displayed(d, env[2], 1, first.t), LAMBDA second :
            IF first.exc # "none"
            THEN [seen |-> FALSE, exc |-> first.exc, t |-> first.t]
            ELSE [seen |-> second.exc = "none" /\ first.ret = "True"
                             /\ second.ret = "True",
                  exc |-> second.exc, t |-> second.t]))
    ELSE IF op = "wait_for_any_element"
    THEN With(any_selector(d, env, 1, t), LAMBDA c :
         [seen |-> c.elem # 0, exc |-> c.exc, t |-> c.t])
    ELSE LET r == find_element(d, env[1], t)
             shown == IF r.out # "found" THEN "False"
                      ELSE IF op = "find_element_safe" THEN "True"
                      ELSE is_displayed(env[1])
         IN IF r.out \notin {"found", "NoSuchElementException"}
            THEN [seen |-> FALSE, exc |-> r.out, t |-> t + r.cost]
            ELSE IF shown \notin {"True", "False"}
            THEN [seen |-> FALSE, exc |-> shown, t |-> t + r.cost]
            ELSE [seen |-> shown = "True", exc |-> "none", t |-> t + r.cost]

\* where a loop goes after a sample that did not show the condition:
\* time.sleep(0.5), or the sleep of WebDriverWait
after_miss_NoSleep(op) == "test"

after_miss(op) == "sleep"

\* the clock after the sleep of one poll interval
sleep(t) == t + Poll

\* a loop is under way
Running == last.pc # "done"

\* A loop is entered: the deadline is fixed from the timeout argument.  A
\* while loop tests the deadline first, WebDriverWait samples first.
poll_enter ==
    \E op \in Loops :
        \E env \in LoopEnvs(op), timeout \in Timeouts :
            /\ Idle
            /\ op \in WhileLoops => HasPage
            /\ last' = [Rec(op) EXCEPT
                            !.ret = "running", !.env = env, !.timeout = timeout,
                            !.limit = Ticks(EffectiveTimeout(timeout, LoopTier(op))),
                            !.pc = IF op \in WhileLoops THEN "test" ELSE "sample"]
            /\ UNCHANGED <<_driver, _wait, status, conf, page, released, field>>

\* the test of the deadline: `time.time() - start_time < timeout`, or the
\* `time.monotonic() > end_time` of WebDriverWait, whose TimeoutException
\* the caller turns into None
poll_test ==
    /\ last.pc = "test"
    /\ last' = IF last.elapsed < last.limit
               THEN [last EXCEPT !.pc = "sample"]
               ELSE [last EXCEPT !.pc = "done", !.ret = FailureValue(last.op)]
    /\ UNCHANGED <<_driver, _wait, status, conf, page, released, field>>

\* one sample: the loop returns when the condition is seen, is left by the
\* exception of a rejected lookup, and goes to sleep otherwise
poll_sample ==
    /\ last.pc = "sample"
    /\ LET r == sample(last.op, _driver, last.env, last.elapsed)
           now == [last EXCEPT !.elapsed = r.t, !.sampled = TRUE, !.slept = FALSE]
       IN last' = IF r.exc # "none"
                  THEN [now EXCEPT !.pc = "done", !.ret = "None", !.exc = r.exc]
                  ELSE IF r.seen
                  THEN [now EXCEPT !.pc = "done", !.ret = SuccessValue(last.op)]
                  ELSE [now EXCEPT !.pc = after_miss(last.op)]
    /\ UNCHANGED <<_driver, _wait, status, conf, page, released, field>>

\* the sleep between two samples
poll_sleep ==
    /\ last.pc = "sleep"
    /\ last' = [last EXCEPT !.elapsed = sleep(@), !.slept = TRUE, !.pc = "test"]
    /\ UNCHANGED <<_driver, _wait, status, conf, page, released, field>>

----------------------------------------------------------------------------
(* Use after quit_driver *)

LookupOps ==
    {"find_element_safe", "find_elements_safe", "wait_for_element_clickable",
     "wait_for_text_in_element", "wait_for_page_load", "navigate_to",
     "refresh_page", "get_current_url", "get_title", "click_element_safe",
     "type_text_safe"}

\* C2: once quit_driver() has been called on a session, every later
\* DriverManager operation on it either raises the "not initialized"
\* RuntimeError or returns having done nothing; it fails in no other way.
C2_AfterQuitErrorOrNoOp ==
    (last.op \in LookupOps /\ last.quit /\ Launched > 0) =>
        \/ last.exc = "RuntimeError"
        \/ (last.exc = "none" /\ last.sess # "live")

\* C3: quit_driver is idempotent: a second call right after a first raises
\* nothing and does not invoke quit() on a browser that is already released.
C3_QuitTwice ==
    (last.op = "quit_driver" /\ last.quit) =>
        /\ last.exc = "none"
        /\ ~(last.acts = <<"quit">> /\ last.sess = "dead")

\* C4: find_element_safe polls until its timeout has elapsed and, when the
\* element never becomes present, returns None and does not raise.
C4_AbsentElementIsNone ==
    (last.op = "find_element_safe" /\ last.sess = "live"
        /\ last.env[1].appear = Never) =>
        /\ last.exc = "none"
        /\ last.ret = "None"
        /\ last.elapsed >= Ticks(IF last.timeout = None THEN TIMEOUT_MEDIUM
                                 ELSE last.timeout)

\* the soft-failure value of each operation
SoftValue(op) ==
    CASE op \in {"find_element_safe", "wait_for_element_clickable",
                 "wait_for_page_load", "navigate_to", "refresh_page"} -> "None"
      [] op = "find_elements_safe" -> "[]"
      [] op \in {"get_current_url", "get_title"} -> ""
      [] OTHER -> "False"

\* the browser rejected a command of the call
Rejected ==
    \/ last.res \in {"WebDriverException", "TimeoutException"}
    \/ (last.env # <<>> /\ last.env[1].kind = "fault")

\* C5: in a live session every lookup or interaction turns a command that
\* the automation endpoint rejects into its soft-failure value and does not
\* raise.
C5_EndpointFailureIsSoft ==
    (last.op \in LookupOps /\ last.sess = "live" /\ Rejected) =>
        /\ last.exc = "none"
        /\ last.ret = SoftValue(last.op)

\* C9: click_element_safe clicks only an element that
\* wait_for_element_clickable returned, returns True only after a click that
\* raised nothing, and returns False without raising when the resolution or
\* the click fails.
C9_ClickSafe ==
    (last.op = "click_element_safe" /\ last.sess = "live") =>
        /\ (last.acts # <<>> => last.res = "element" /\ last.acts = <<"click">>)
        /\ (last.ret = "True" => last.acts = <<"click">> /\ last.failed = "none")
        /\ (last.res # "element" \/ last.failed # "none"
                => last.ret = "False" /\ last.exc = "none")

\* C10: type_text_safe resolves through find_element_safe, clears before
\* sending exactly when clear_first is set, sends nothing after a failed
\* clear, and returns False on any failure of resolution, clear or send.
C10_TypeTextSafe ==
    (last.op = "type_text_safe" /\ last.sess = "live") =>
        /\ (last.acts # <<>> => last.res = "element")
        /\ (last.arg /\ last.res = "element" => last.acts[1] = "clear")
        /\ (~last.arg => \A i \in 1..Len(last.acts) : last.acts[i] # "clear")
        /\ (last.failed = "clear" => last.acts = <<"clear">>)
        /\ (last.res # "element" \/ last.failed # "none"
                => last.ret = "False" /\ last.exc = "none")
        /\ (last.ret = "True" => last.failed = "none"
                /\ last.acts[Len(last.acts)] = "send_keys")

----------------------------------------------------------------------------
(* Fallback selectors and polling loops *)

\* an element that is_displayed() once present
Displayed(b) == b.kind \in {"visible", "blocked"}

\* the selector at position i of the list of the last call matched when it
\* was tried: its element was present and displayed by the time the last
\* lookup of its turn was answered
MatchedWhenTried(i) ==
    /\ last.sess = "live"
    /\ Displayed(last.env[i])
    /\ last.env[i].appear # Never
    /\ last.env[i].appear <= last.obs[i].look

Min(S) == CHOOSE x \in S : \A y \in S : x <= y

\* C1: try_multiple_selectors(selectors, "find") is first-match-wins: it
\* tries the selectors in list order and returns the element of the first
\* one that is present and displayed when tried, never the element of a
\* later one, and None when none matched.
C1_FirstMatchWins ==
    last.op = "try_multiple_selectors" =>
        LET matched == {i \in 1..Len(last.obs) : MatchedWhenTried(i)} IN
        /\ last.exc = "none"
        /\ \A i \in 1..Len(last.obs) : i = 1 \/ last.obs[i].from >= last.obs[i - 1].to
        /\ IF matched = {}
           THEN last.ret = "None" /\ last.elem = 0 /\ Len(last.obs) = Len(last.env)
           ELSE last.ret = "element" /\ last.elem = Min(matched)
                /\ Len(last.obs) = last.elem

\* [".missing-class", "#real-id"] with only #real-id displayed: the second
\* selector's element is returned
C1_Witness ==
    /\ last.op = "try_multiple_selectors"
    /\ last.sess = "live"
    /\ Len(last.env) = 2
    /\ last.env[1].kind = "absent"
    /\ last.env[2] = [appear |-> 0, kind |-> "visible"]
    /\ last.elem = 2

\* C6: wait_for_url_contains returns True exactly when some sample taken
\* before the deadline holds the text; when none does it returns False and
\* does not raise.
C6_UrlContainsIffSampled ==
    (last.op = "wait_for_url_contains" /\ last.sess = "live") =>
        LET hit == \E k \in 1..Len(last.obs) : last.obs[k].read = "match" IN
        /\ (last.ret = "True" <=> hit)
        /\ \A k \in 1..Len(last.obs) :
              last.obs[k].at < Ticks(EffectiveTimeout(last.timeout, TIMEOUT_MEDIUM))
        /\ (~hit => last.ret = "False" /\ last.exc = "none")

\* C7: wait_for_any_element returns at once, within one polling interval
\* and without a sleep, whenever some selector of the list, at any position,
\* is present and displayed when the call starts.
C7_ReadyMeansNoWait ==
    (last.op = "wait_for_any_element" /\ last.sess = "live"
        /\ \E i \in 1..Len(last.env) : Displayed(last.env[i]) /\ last.env[i].appear = 0) =>
        /\ last.exc = "none"
        /\ last.ret = "element"
        /\ last.sleeps = 0
        /\ last.elapsed <= Poll

\* C8: when no selector of the list ever matches, try_multiple_selectors
\* (selectors, "find") returns None after one attempt per selector, within
\* len(selectors) times the per-attempt timeout of 2 s.
C8_ExhaustedWithinBudget ==
    (last.op = "try_multiple_selectors" /\ last.sess = "live"
        /\ \A i \in 1..Len(last.env) : ~Displayed(last.env[i])) =>
        /\ last.exc = "none"
        /\ last.ret = "None"
        /\ Len(last.obs) = Len(last.env)
        /\ last.elapsed <= Len(last.env) * Ticks(ATTEMPT_TIMEOUT)

----------------------------------------------------------------------------
(* The session's life cycle *)

\* the strategies of the last initialize_driver: the system Chrome first,
\* WebDriverManager only after the first failed
StrategyOrder ==
    /\ last.acts[1] = "system"
    /\ (Len(last.acts) = 2 <=> ~last.obs[1])
    /\ (Len(last.acts) = 2 => last.acts[2] = "wdm")

\* whenever the last initialize_driver returned, the four configuration
\* calls were made on the driver it returned, which is the session's driver
ReturnedConfigured ==
    last.exc = "none" =>
        /\ last.ret = "driver"
        /\ _driver = last.elem
        /\ _wait = last.elem
        /\ status[last.elem] = "live"
        /\ conf[last.elem] = Len(ConfigCalls)

\* C11 as stated: initialize_driver tries the system Chrome first and
\* WebDriverManager only if the first fails, raises if and only if both
\* strategies fail, and whenever it returns the implicit wait, the page-load
\* timeout and the script timeout are set and the window is maximized.
C11_RaisesIffBothFail ==
    last.op = "initialize_driver" =>
        /\ StrategyOrder
        /\ (last.exc # "none" <=> ~last.obs[1] /\ ~last.obs[2])
        /\ ReturnedConfigured

\* C11 amended: initialize_driver tries the system Chrome first and
\* WebDriverManager only if the first fails; it raises if and only if both
\* strategies fail or one of the four configuration calls raises on the
\* launched browser; whenever it returns, all four calls were made on the
\* returned driver.
C11_RaisesIffNoDriverOrConfigFails ==
    last.op = "initialize_driver" =>
        /\ StrategyOrder
        /\ (last.exc # "none" <=>
                \/ (~last.obs[1] /\ ~last.obs[2])
                \/ last.failed \in {ConfigCalls[k] : k \in 1..Len(ConfigCalls)})
        /\ (last.failed # "none" => conf[last.elem] < Len(ConfigCalls))
        /\ ReturnedConfigured

\* the system Chrome failed, WebDriverManager launched the browser and
\* every configuration call was accepted
C11_Witness ==
    /\ last.op = "initialize_driver"
    /\ last.acts = <<"system", "wdm">>
    /\ last.obs = <<FALSE, TRUE>>
    /\ last.exc = "none"
    /\ conf[last.elem] = ConfigSteps

----------------------------------------------------------------------------
(* Timeouts *)

WaitOps ==
    {"find_element_safe", "wait_for_element_clickable", "wait_for_text_in_element",
     "wait_for_page_load", "wait_for_any_element", "wait_for_url_contains",
     "wait_for_title_contains"}

\* the named tier of each wait, in seconds
Tier(op) == IF op = "wait_for_text_in_element" THEN TIMEOUT_LONG ELSE TIMEOUT_MEDIUM

\* the timeout the last call was to wait, in ticks: the argument when the
\* caller supplied one, the tier otherwise
SuppliedOrTier ==
    Ticks(IF last.timeout = None THEN Tier(last.op) ELSE last.timeout)

\* the condition the last call waited for never came about, and the
\* browser answered every lookup
NeverObserved ==
    /\ last.sess = "live"
    /\ last.exc = "none"
    /\ \A i \in 1..Len(last.env) : last.env[i].kind = "absent"

\* the waits whose run time is their timeout: the loops that read a
\* property, and the single lookups when no implicit wait delays them
RunsItsTimeout ==
    \/ last.op \in {"wait_for_page_load", "wait_for_url_contains",
                    "wait_for_title_contains"}
    \/ (last.op # "wait_for_any_element" /\ _driver # None /\ Implicit(_driver) = 0)

\* C13: every wait operation waits for the timeout argument whenever the
\* caller supplies one, 0 included, and for its named tier otherwise: a
\* wait whose condition never comes about runs for no less than that
\* timeout, and for no more than it (one poll interval at least) when
\* nothing else delays it.
C13_SuppliedTimeoutIsUsed ==
    (last.op \in WaitOps /\ NeverObserved) =>
        /\ last.elapsed >= SuppliedOrTier
        /\ (RunsItsTimeout => last.elapsed <= Max(Poll, SuppliedOrTier))

\* the condition the last loop waits for can come about: the URL, the
\* title or a displayed element of each list shows up at some tick
CanHold ==
    IF last.op \in PairLoops
    THEN /\ Displayed(last.env[1][1]) /\ last.env[1][1].appear # Never
         /\ Displayed(last.env[2][1]) /\ last.env[2][1].appear # Never
    ELSE /\ last.env[1].appear # Never
         /\ last.op # "find_element_safe" => Displayed(last.env[1])

\* C14: no polling loop suspends forever: with time advancing, every loop
\* that was entered returns to its caller, and a loop whose condition never
\* comes about returns its failure value (None or False).
C14_EveryLoopReturns ==
    /\ [](Running => <>(~Running))
    /\ []((last.op \in Loops /\ ~Running /\ last.sess = "live" /\ ~CanHold) =>
            (last.exc = "none" /\ last.ret = FailureValue(last.op)))

\* the browsers launched through DriverManager that are running
LiveBrowsers == {b \in Browsers : status[b] = "live"}

\* C15: at most one session is active: after any sequence of
\* initialize_driver and quit_driver calls at most one browser launched
\* through DriverManager is live.
C15_AtMostOneLive == Cardinality(LiveBrowsers) <= 1

\* C16: round trip through an input field: after type_text_safe(locator,
\* text) with clear_first=True has returned True, get_text_safe(locator) on
\* the same text input returns the typed text, for every text.
C16_TypeThenGetText ==
    (last.op = "get_text_safe" /\ last.sess = "live" /\ last.res = "element"
        /\ field.fresh) =>
        /\ last.exc = "none"
        /\ last.text = field.typed

\* the last call was wait_for_url_contains during a navigation that completes
InFlight ==
    /\ last.op = "wait_for_url_contains"
    /\ last.sess = "live"
    /\ last.env[1].kind \in {"visible", "midway"}

\* the URL was sampled at entry and after every sleep of one poll interval,
\* the last sample is the one that matched; twice at least when the
\* navigation was not complete at entry
SampledEveryPoll ==
    /\ last.exc = "none"
    /\ last.ret = "True"
    /\ Len(last.obs) >= 1
    /\ \A k \in 1..Len(last.obs) :
          /\ last.obs[k].at = (k - 1) * Poll
          /\ last.obs[k].read = IF k = Len(last.obs) THEN "match" ELSE "other"
    /\ (~completed(last.env[1], 0) => Len(last.obs) >= 2)

\* C17 as stated: wait_for_url_contains(text, timeout) called during a
\* navigation that completes after a delay d < timeout returns True, having
\* sampled the URL at entry and again after every 0.5 s sleep, so at least
\* twice when d > 0.
C17_CompletesBeforeTimeout ==
    (InFlight /\ last.env[1].appear < SuppliedOrTier) => SampledEveryPoll

\* C17 amended: wait_for_url_contains(text, timeout) called during a
\* navigation that completes after a delay d <= timeout - 0.5 s, that is no
\* later than the last sample before the deadline, returns True, having
\* sampled the URL at entry and again after every 0.5 s sleep, so at least
\* twice when d > 0.
C17_CompletesByLastSample ==
    (InFlight /\ SuppliedOrTier >= Poll
        /\ completed(last.env[1], SuppliedOrTier - Poll))
        => SampledEveryPoll

\* the navigation completes one poll interval after the call, which waits 1 s
C17_Witness ==
    /\ InFlight
    /\ last.timeout = 1
    /\ last.env[1] = [appear |-> Poll, kind |-> "visible"]
    /\ last.ret = "True"
    /\ Len(last.obs) = 2

\* the polling idiom, in every state of a while loop: no sleep before the
\* first sample, a sleep between a sample and the next, and the failure
\* value only once the deadline has passed
PollingIdiom ==
    last.op \in WhileLoops =>
        /\ (last.slept \/ last.pc = "sleep") => last.sampled
        /\ (last.pc = "sample" /\ last.sampled) => last.slept
        /\ (~Running /\ last.exc = "none" /\ last.ret = FailureValue(last.op))
                => last.elapsed >= last.limit

\* while a loop runs, its deadline is the one computed at entry
DeadlineKept ==
    Running => /\ last'.op = last.op
               /\ last'.limit = last.limit

\* C18: all polling loops (wait_for_any_element, wait_for_url_contains,
\* wait_for_title_contains, wait_for_dashboard_load, wait_for_login_success,
\* wait_for_chat_interface_load) follow one idiom: the deadline is computed
\* once at entry, the condition is sampled before any sleep, a sleep
\* separates every two consecutive samples, and failure is returned only
\* after the deadline has passed.
C18_OnePollingIdiom == []PollingIdiom /\ [][DeadlineKept]_vars

\* wait_for_dashboard_load ran to its deadline over elements that stay
\* hidden: it sampled, slept, and returned False
C18_Witness ==
    /\ last.op = "wait_for_dashboard_load"
    /\ ~Running
    /\ last.sess = "live"
    /\ last.ret = "False"
    /\ last.exc = "none"
    /\ last.sampled /\ last.slept
    /\ last.elapsed >= last.limit

\* the click on the selector at position i of the list of the last call
\* succeeded when it was tried: its element was present, displayed and
\* enabled by the last lookup of its turn, and accepted the click
ClickedWhenTried(i) ==
    /\ last.sess = "live"
    /\ last.env[i].kind = "visible"
    /\ last.env[i].appear # Never
    /\ last.env[i].appear <= last.obs[i].look

\* C19: try_multiple_selectors(selectors, "click") traverses the selectors
\* in list order, reports success on the first selector whose click
\* succeeds, clicks no later selector (one successful click at most), and
\* reports failure only after every selector has been tried.
C19_FirstClickWins ==
    last.op = "try_multiple_selectors_click" =>
        LET clicked == {i \in 1..Len(last.obs) : ClickedWhenTried(i)} IN
        /\ last.exc = "none"
        /\ \A i \in 1..Len(last.obs) :
              /\ i = 1 \/ last.obs[i].from >= last.obs[i - 1].to
              /\ last.obs[i].hit <=> i \in clicked
              /\ last.obs[i].hit => last.obs[i].clicked
        /\ Cardinality(clicked) <= 1
        /\ IF clicked = {}
           THEN last.ret = "None" /\ last.elem = 0 /\ Len(last.obs) = Len(last.env)
           ELSE last.ret = "True" /\ last.elem = Min(clicked)
                /\ Len(last.obs) = last.elem

\* the first button rejects the click, the second accepts it: success on
\* the second selector
C19_Witness ==
    /\ last.op = "try_multiple_selectors_click"
    /\ last.sess = "live"
    /\ Len(last.env) = 2
    /\ last.env[1] = [appear |-> 0, kind |-> "blocked"]
    /\ last.env[2] = [appear |-> 0, kind |-> "visible"]
    /\ last.obs[1].clicked /\ ~last.obs[1].hit
    /\ last.ret = "True"
    /\ last.elem = 2

\* C20: any(is_element_displayed(by_css(s)) for s in selectors) never
\* raises, returns True when some selector of the list resolves to a
\* displayed element as the check starts, and returns False when none
\* resolves to a displayed element while the check runs.
C20_AnyDisplayed ==
    (last.op = "any_displayed" /\ last.sess = "live") =>
        LET now == {i \in 1..Len(last.env) :
                        Displayed(last.env[i]) /\ last.env[i].appear = 0}
            ever == {i \in 1..Len(last.env) :
                        /\ Displayed(last.env[i])
                        /\ last.env[i].appear # Never
                        /\ last.env[i].appear <= last.elapsed}
        IN
        /\ last.exc = "none"
        /\ last.ret \in {"True", "False"}
        /\ (now # {} => last.ret = "True")
        /\ (ever = {} => last.ret = "False")

\* C12: quit_driver never propagates an exception, whatever the state of
\* the life cycle it is called in (never initialized, initialize_driver
\* failed or failed part-way, initialized, already quit) and whether or not
\* the browser's quit() raises; it calls quit() only on a driver it holds.
C12_QuitNeverRaises ==
    last.op = "quit_driver" =>
        /\ last.exc = "none"
        /\ (last.acts = <<"quit">> <=> last.sess # "none")
        /\ (last.acts = <<>> => last.res = "n/a")

\* quit_driver after an initialize_driver that failed part-way (the browser
\* was launched, a configuration call raised), with quit() raising
C12_Witness ==
    /\ last.op = "quit_driver"
    /\ last.res = "raised"
    /\ last.elem # 0
    /\ conf[last.elem] < ConfigSteps
    /\ _wait = None

----------------------------------------------------------------------------
(* Page loads, soft interactions, handles *)

\* the last call loaded a page or waited for one, in a live session whose
\* browser rejected no command outright; the page becomes ready or never does
PageLoadCase ==
    /\ last.op \in {"wait_for_page_load", "navigate_to", "refresh_page"}
    /\ last.sess = "live"
    /\ last.env[1].kind \in {"absent", "visible"}
    /\ last.res # "WebDriverException"

\* C21: wait_for_page_load polls the document-ready signal until it is
\* "complete" or the timeout elapses and returns normally in both cases: a
\* page that never becomes ready raises nothing, and so navigate_to and
\* refresh_page return normally too.
C21_PageLoadReturnsNormally ==
    PageLoadCase => (last.exc = "none" /\ last.ret = "None")

\* C22: hover_over_element, send_keys_to_element and scroll_to_element
\* each resolve the element first, perform their action only if the element
\* was resolved, and return False without raising if the resolution or the
\* action fails.
C22_ResolveThenAct ==
    (last.op \in SoftActions /\ last.sess = "live") =>
        /\ (last.acts # <<>> => last.res = "element")
        /\ (last.ret = "True" => last.acts # <<>> /\ last.failed = "none")
        /\ (last.res # "element" \/ last.failed # "none"
                => last.ret = "False" /\ last.exc = "none")

\* the last call ran the two loops side by side in a live session
SideBySide == last.op = "side_by_side" /\ last.sess = "live"

\* a string without upper-case letters
LowerCase(str) == lower(str) = str

\* C23 as stated: wait_for_title_contains and wait_for_url_contains are the
\* same polling loop: run side by side on the same sequence of sampled
\* strings with the same text and timeout, they return the same result.
C23_SameResult ==
    SideBySide => last.obs[1] = last.obs[2]

\* C23 amended: the two are the same polling loop, wait_for_title_contains
\* comparing in lower case: run side by side on the same sampled strings
\* with the same text and timeout they return the same result, at the same
\* time, whenever the text and the strings hold no upper-case letter; in
\* every case wait_for_title_contains returns True whenever
\* wait_for_url_contains does, and no later.
C23_SameResultInLowerCase ==
    SideBySide =>
        /\ (LowerCase(last.text) /\ LowerCase(last.env[1].shown))
                => last.obs[1] = last.obs[2]
        /\ last.obs[1].ret = "True"
                => last.obs[2].ret = "True" /\ last.obs[2].t <= last.obs[1].t
        /\ last.obs[1].exc = "none" /\ last.obs[2].exc = "none"

\* the text "a" in a URL and a title that read "aa" from the second sample
\* on: both loops return True at that sample
C23_Witness ==
    /\ SideBySide
    /\ last.text = <<"a">>
    /\ last.env[1] = [appear |-> Poll, shown |-> <<"a", "a">>]
    /\ last.timeout = 1
    /\ last.obs[1].ret = "True" /\ last.obs[1].t = Poll
    /\ last.obs[2] = last.obs[1]

\* a session is currently initialized: the last initialize_driver that
\* launched a browser returned (every configuration call was accepted) and
\* quit_driver has not been called since
Initialized ==
    /\ _driver # None
    /\ conf[_driver] = ConfigSteps
    /\ ~released

\* C24: get_driver() and get_wait() return the handle if and only if a
\* session is currently initialized and raise RuntimeError otherwise, so a
\* BasePage can be constructed only between a successful initialize_driver
\* and the next quit_driver.
C24_HandlesIffInitialized ==
    /\ Idle => /\ (get_driver = "none" <=> Initialized)
               /\ (get_wait = "none" <=> Initialized)
    /\ last.op = "BasePage" =>
            /\ (last.exc = "none" <=> Initialized)
            /\ last.exc \in {"none", "RuntimeError"}

\* C25: whenever quit_driver() returns, the session is released: _driver
\* and _wait are both None (so get_driver raises), whatever the outcome of
\* the browser's quit().
C25_QuitReleasesSession ==
    last.op = "quit_driver" =>
        /\ _driver = None
        /\ _wait = None
        /\ get_driver = "RuntimeError"

\* C26: in every state reached by initialize_driver and quit_driver calls,
\* each of which may fail at any step, _wait is non-None only if _driver is
\* non-None, and _wait is the wait object built for the current _driver.
C26_WaitBelongsToDriver ==
    _wait # None => (_driver # None /\ _wait = _driver)

\* a step in which initialize_driver raises
InitializeRaises ==
    /\ Idle
    /\ last'.op = "initialize_driver"
    /\ last'.exc # "none"

\* the step leaves the class state as it was and no new browser running
LeavesNoTrace ==
    /\ _driver' = _driver
    /\ _wait' = _wait
    /\ \A b \in Browsers : status'[b] = "live" => status[b] = "live"

\* C27: if initialize_driver raises, the class state (_driver, _wait) is
\* unchanged from before the call and no browser launched by that call is
\* left running, for a failure at any step, the configuration and maximize
\* steps that follow a successful launch included.
C27_FailedInitializeLeavesNoTrace ==
    [][InitializeRaises => LeavesNoTrace]_vars

\* the last call was an operation on the page object
PageCall ==
    /\ HasPage
    /\ last.op \notin {"none", "initialize_driver", "quit_driver", "BasePage"}

\* C28: at every operation on a BasePage instance, its cached self.driver
\* and self.wait are the same handles as DriverManager's current _driver
\* and _wait, so that operations through self.driver and operations through
\* DriverManager act on the same live browser.
C28_PageHoldsCurrentHandles ==
    PageCall =>
        /\ page.driver = _driver
        /\ page.wait = _wait

\* some selector of the list of input step k of the last login matches a
\* displayed input
SomeInputMatches(k) ==
    \E i \in 1..Len(last.env[k]) : Displayed(last.env[k][i])

\* C29: login types each credential into the element that its fallback
\* search located: whenever any selector of email_input_selectors (resp.
\* password_input_selectors) matches a displayed input, the text is entered
\* into that input, so login returns False at the input steps only when no
\* selector of the list matches.
C29_TypesIntoLocatedInput ==
    (last.op = "login" /\ last.sess = "live") =>
        /\ \A k \in 1..Len(last.obs) :
              SomeInputMatches(k) =>
                  /\ last.obs[k].ok
                  /\ last.obs[k].located # 0
                  /\ last.obs[k].typed = last.obs[k].located
        /\ last.failed \in {"email", "password"}
                => ~SomeInputMatches(Len(last.obs))

\* C30: wait_for_any_element(selectors, timeout) returns (an element or
\* None) no later than timeout after entry: the elapsed time, counting every
\* per-selector lookup and every 0.5 s sleep, never exceeds the timeout, for
\* every number of selectors.
C30_AnyElementWithinTimeout ==
    (last.op = "wait_for_any_element" /\ last.sess = "live" /\ last.exc = "none") =>
        last.elapsed <= SuppliedOrTier

\* The call returns: the single thread of control takes the result and is
\* free to make the next call.
Return ==
    /\ ~Idle
    /\ last' = Blank
    /\ UNCHANGED <<_driver, _wait, status, conf, page, released, field>>

Next ==
    \/ initialize_driver
    \/ quit_driver
    \/ BasePage
    \/ Return

Spec == Init /\ [][Next]_vars

\* the element operations of DriverManager, over the sessions of a test class
NextOps ==
    \/ setup_class
    \/ quit_driver
    \/ Return
    \/ find_element_safe_call
    \/ find_elements_safe_call
    \/ wait_for_element_clickable_call
    \/ wait_for_text_in_element_call
    \/ wait_for_page_load_call
    \/ navigate_to_call
    \/ refresh_page_call
    \/ get_current_url_call
    \/ get_title_call
    \/ click_element_safe_call
    \/ type_text_safe_call
    \/ get_text_safe_call

SpecOps == Init /\ [][NextOps]_vars

\* the page objects' fallback selectors and polling loops
NextPage ==
    \/ setup_class
    \/ quit_driver
    \/ BasePage
    \/ Return
    \/ try_multiple_selectors_call
    \/ wait_for_any_element_call
    \/ wait_for_url_contains_call
    \/ wait_for_title_contains_call
    \/ try_multiple_selectors_click_call
    \/ any_displayed_call
    \/ soft_action_call
    \/ side_by_side_call
    \/ login_call

SpecPage == Init /\ [][NextPage]_vars

\* the caller takes the result of a loop that has ended
poll_return == ~Running /\ Return

\* the polling loops, step by step; the single thread keeps running and
\* the clock keeps advancing
NextLoop ==
    \/ setup_class
    \/ quit_driver
    \/ BasePage
    \/ poll_enter
    \/ poll_test
    \/ poll_sample
    \/ poll_sleep
    \/ poll_return

SpecLoop ==
    /\ Init
    /\ [][NextLoop]_vars
    /\ WF_vars(poll_test)
    /\ WF_vars(poll_sample)
    /\ WF_vars(poll_sleep)

====
